---- MODULE Spec2Model ----
(***************************************************************************)
(* Timer bot (src/main.go): the per-chat timer lifecycle.                  *)
(*                                                                         *)
(* Threads: thread 0 is the update loop of main(), which handles one       *)
(* update at a time (handleMessage / handleCallback); threads 1..MaxGo are *)
(* the expiry goroutines started by startTimer.  A step is a run of        *)
(* statements no other thread can tell apart from one atomic statement:    *)
(* statements are split wherever another thread's access to the map        *)
(* activeTimers, to a Timer's fields, to the mutex or to the log file can   *)
(* fall between them and change the outcome.                               *)
(*                                                                         *)
(* Time is counted in milliseconds: every text of Texts parses to a whole  *)
(* number of milliseconds, so time.Duration (nanoseconds) is represented   *)
(* exactly at that resolution.                                             *)
(***************************************************************************)
EXTENDS Integers, Sequences, FiniteSets, TLC

\* ---------------------------------------------------------------- bounds
MaxTimers == 2
MaxGo == 2
MaxEvents == 6

\* ------------------------------------------------------------- constants
Chats == {1, 2}
Main == 0
Goroutines == 1..MaxGo
Threads == {Main} \cup Goroutines
NoThread == -1
NoTimer == 0
NoChat == 0
NoTime == -1

Millisecond == 1
Second == 1000
Minute == 60000
Hour == 3600000

\* Texts a chat can send (msg.Text), as sequences of characters.
Texts ==
    { <<"a", "b", "c">>,
      <<"1", "0">>,
      <<"0">>,
      <<"-", "1">> }

\* -------------------------------------------------- time.ParseDuration
Digits == {"0", "1", "2", "3", "4", "5", "6", "7", "8", "9"}

DigitVal(c) ==
    CASE c = "0" -> 0 [] c = "1" -> 1 [] c = "2" -> 2 [] c = "3" -> 3
      [] c = "4" -> 4 [] c = "5" -> 5 [] c = "6" -> 6 [] c = "7" -> 7
      [] c = "8" -> 8 [] c = "9" -> 9

\* leadingInt: the leading [0-9]* of s, its value x and the rest.
RECURSIVE leadingInt(_, _)
leadingInt(s, x) ==
    IF s # <<>> /\ Head(s) \in Digits
    THEN leadingInt(Tail(s), x * 10 + DigitVal(Head(s)))
    ELSE [x |-> x, rem |-> s]

\* leadingFraction: the leading [0-9]* of s as a fraction x / scale.
RECURSIVE leadingFraction(_, _, _)
leadingFraction(s, x, scale) ==
    IF s # <<>> /\ Head(s) \in Digits
    THEN leadingFraction(Tail(s), x * 10 + DigitVal(Head(s)), scale * 10)
    ELSE [x |-> x, scale |-> scale, rem |-> s]

\* The length of the unit: everything up to the next '.' or digit.
RECURSIVE unitLen(_)
unitLen(s) ==
    IF s = <<>> \/ Head(s) = "." \/ Head(s) \in Digits
    THEN 0
    ELSE 1 + unitLen(Tail(s))

\* unitMap, in milliseconds; 0 stands for "unknown unit".  The units below
\* a millisecond (ns, us) need letters no text of Texts has.
unitMap(u) ==
    CASE u = <<"m", "s">> -> Millisecond
      [] u = <<"s">> -> Second
      [] u = <<"m">> -> Minute
      [] u = <<"h">> -> Hour
      [] OTHER -> 0

ParseErr == [ok |-> FALSE, d |-> 0]

\* The loop of ParseDuration over ([0-9]*(\.[0-9]*)?[a-z]+)+, d the sum so far.
RECURSIVE parseLoop(_, _)
parseLoop(s, d) ==
    IF s = <<>> THEN [ok |-> TRUE, d |-> d]
    ELSE IF ~(Head(s) = "." \/ Head(s) \in Digits) THEN ParseErr
    ELSE
      LET li == leadingInt(s, 0)
          pre == Len(li.rem) # Len(s)
          dot == li.rem # <<>> /\ Head(li.rem) = "."
          afterDot == IF dot THEN Tail(li.rem) ELSE li.rem
          lf == IF dot THEN leadingFraction(afterDot, 0, 1)
                       ELSE [x |-> 0, scale |-> 1, rem |-> li.rem]
          post == dot /\ Len(lf.rem) # Len(afterDot)
          i == unitLen(lf.rem)
          u == SubSeq(lf.rem, 1, i)
          rest == SubSeq(lf.rem, i + 1, Len(lf.rem))
          unit == unitMap(u)
          v == li.x * unit + (lf.x * unit) \div lf.scale
      IN IF ~pre /\ ~post THEN ParseErr
         ELSE IF i = 0 THEN ParseErr
         ELSE IF unit = 0 THEN ParseErr
         ELSE parseLoop(rest, d + v)

\* time.ParseDuration(s): [-+]?([0-9]*(\.[0-9]*)?[a-z]+)+, or "0".
ParseDuration(s0) ==
    LET signed == s0 # <<>> /\ Head(s0) \in {"-", "+"}
        neg == signed /\ Head(s0) = "-"
        s == IF signed THEN Tail(s0) ELSE s0
    IN IF s = <<"0">> THEN [ok |-> TRUE, d |-> 0]
       ELSE IF s = <<>> THEN ParseErr
       ELSE LET r == parseLoop(s, 0)
            IN IF r.ok THEN [ok |-> TRUE, d |-> IF neg THEN -r.d ELSE r.d]
                       ELSE ParseErr

\* handleTimerSetup: time.ParseDuration(input + "m").
ParseMinutes(input) == ParseDuration(Append(input, "m"))


\* ------------------------------------------------------------------ state
VARIABLES
    activeTimers,   \* the map chatID -> *Timer (NoTimer: no entry)
    timers,         \* the Timer objects, by identity
    nTimers,        \* how many Timer objects have been allocated
    mu,             \* the thread holding the mutex, or NoThread
    pc,             \* each thread's position
    chatID,         \* each thread's chatID parameter
    timer,          \* each thread's local variable `timer`
    input,          \* the text of the message being handled
    wakeAt,         \* the instant each goroutine's time.Sleep may return
    forTimer,       \* the Timer whose Confirm started each goroutine
    manualStop,     \* whether a manual Stop was issued since the goroutine started
    logFile,        \* the lines of timers.log
    reports,        \* the "timer stopped" messages sent, in order
    lastMsg,        \* the last message each thread sent with bot.Send
    logErr,         \* the outcome of the thread's last logTimer call
    now,            \* time.Now()
    crashed,        \* the process died (nil dereference, fatal map race)
    openFiles,      \* how many handles of timers.log are open
    nEvents         \* how many updates the update loop has taken

vars == <<activeTimers, timers, nTimers, mu, pc, chatID, timer, input, wakeAt,
          forTimer, manualStop, logFile, reports, lastMsg, logErr, now, crashed, openFiles,
          nEvents>>

\* The zero value Timer{}: &Timer{} at handleCallback.
ZeroTimer == [Name |-> <<>>, StartTime |-> NoTime, Duration |-> 0, StopTime |-> NoTime]

Init ==
    /\ activeTimers = [c \in Chats |-> NoTimer]
    /\ timers = [t \in 1..MaxTimers |-> ZeroTimer]
    /\ nTimers = 0
    /\ mu = NoThread
    /\ pc = [th \in Threads |-> IF th = Main THEN "idle" ELSE "none"]
    /\ chatID = [th \in Threads |-> NoChat]
    /\ timer = [th \in Threads |-> NoTimer]
    /\ input = <<>>
    /\ wakeAt = [g \in Goroutines |-> 0]
    /\ forTimer = [g \in Goroutines |-> NoTimer]
    /\ manualStop = [g \in Goroutines |-> FALSE]
    /\ logFile = <<>>
    /\ reports = <<>>
    /\ lastMsg = [th \in Threads |-> "none"]
    /\ logErr = [th \in Threads |-> "none"]
    /\ now = 0
    /\ crashed = FALSE
    /\ openFiles = 0
    /\ nEvents = 0

\* ---------------------------------------------------------------- helpers
\* Where a thread is once its handler (or goroutine body) has returned.
Finished(th) == IF th = Main THEN "idle" ELSE "done"

\* stopTimer's parameter auto: false from handleCallback, true from the goroutine.
Auto(th) == th # Main

\* Garbage collection: a Timer that neither the map nor a thread's local
\* variable refers to can no longer be read or written by the program.
Reachable(at, tl) == {at[c] : c \in Chats} \cup {tl[th] : th \in Threads}
Collect(tm, at, tl) ==
    [t \in 1..MaxTimers |-> IF t \in Reachable(at, tl) THEN tm[t] ELSE ZeroTimer]

\* The handler on thread th returns, having sent msg last.
Return(th, msg) ==
    /\ pc' = [pc EXCEPT ![th] = Finished(th)]
    /\ timer' = [timer EXCEPT ![th] = NoTimer]
    /\ logErr' = [logErr EXCEPT ![th] = "none"]
    /\ lastMsg' = [lastMsg EXCEPT ![th] = msg]
    /\ chatID' = [chatID EXCEPT ![th] = NoChat]
    /\ input' = IF th = Main THEN <<>> ELSE input

\* logTimer: the entry it formats for `t` at the moment of the call.  Of the
\* line "<action> | name | start | stop" the entry keeps the action and, for
\* each of the two time fields, which of its forms it takes: started is
\* whether the start field is a time that was set (not the zero time.Time);
\* inProgress is whether the stop field is the text "in progress"
\* (timer.StopTime == nil) and not a timestamp.  timer is the identity of the
\* Timer the line is about.
LogEntry(t, action) ==
    [action |-> action, timer |-> t,
     started |-> timers[t].StartTime # NoTime,
     inProgress |-> timers[t].StopTime = NoTime]

\* The outcomes of logTimer: written, os.OpenFile failed, WriteString failed.
LogOutcomes == {"none", "open", "write"}

\* A logTimer that reports an I/O error with log.Fatal.
LogErrorIsFatal_exit(err) == TRUE

\* logTimer reports an I/O error with log.Println and returns: the process
\* goes on (log.Fatal, as in main(), would end it).
LogErrorIsFatal(err) == FALSE

\* os.OpenFile returned a handle: err == nil at the first check.
Opened(err) == err # "open"

\* A logTimer that closes the file only after a successful write.
ClosedAtReturn_successOnly(err) == err = "none"

\* defer file.Close(), registered once the file is open: it runs when
\* logTimer returns, after a failed WriteString as after a successful one.
ClosedAtReturn(err) == Opened(err)

\* The handles of timers.log a call of logTimer leaves open.
LeftOpen(err) ==
    (IF Opened(err) THEN 1 ELSE 0) - (IF ClosedAtReturn(err) THEN 1 ELSE 0)

\* logTimer(t, action) with the given outcome of the file operations: the
\* entry is appended, or an error is reported and nothing is appended.
logTimer(t, action, err) ==
    /\ logFile' = IF err = "none" THEN Append(logFile, LogEntry(t, action)) ELSE logFile
    /\ crashed' = (err # "none" /\ LogErrorIsFatal(err))
    /\ openFiles' = openFiles + LeftOpen(err)

\* ----------------------------------------------- handleCallback "start_timer"
\* A "start_timer" that keeps the Timer a chat already has.
StoredBySetup_keepExisting(c) ==
    IF activeTimers[c] # NoTimer THEN activeTimers[c] ELSE nTimers + 1

\* &Timer{}: a newly allocated Timer, whatever the chat's entry was.
StoredBySetup(c) == nTimers + 1

\* bot.Send(ask for the name); activeTimers[chatID] = &Timer{}: the map is
\* written without the mutex.
BeginSetup(c) ==
    /\ ~crashed /\ pc[Main] = "idle"
    /\ nEvents < MaxEvents
    /\ nEvents' = nEvents + 1
    /\ UNCHANGED openFiles
    /\ nTimers < MaxTimers
    /\ nTimers' = nTimers + 1
    /\ activeTimers' = [activeTimers EXCEPT ![c] = StoredBySetup(c)]
    /\ timers' = Collect(timers, activeTimers', timer)
    /\ lastMsg' = [lastMsg EXCEPT ![Main] = "ask_name"]
    /\ UNCHANGED <<mu, pc, chatID, timer, input, wakeAt, forTimer, manualStop,
                   logFile, reports, logErr, now, crashed>>

\* ------------------------------------------------- handleMessage (default)
\* A handleMessage that routes on `exists` alone.
RoutesToSetup_existsOnly(c) == activeTimers[c] # NoTimer

\* timer, exists := activeTimers[chatID]; exists && timer.Duration == 0
RoutesToSetup(c) ==
    /\ activeTimers[c] # NoTimer
    /\ timers[activeTimers[c]].Duration = 0

\* The map is read without the mutex; the text goes to handleTimerSetup or
\* is answered with the usage hint.
TextInput(c, text) ==
    /\ ~crashed /\ pc[Main] = "idle"
    /\ nEvents < MaxEvents
    /\ nEvents' = nEvents + 1
    /\ UNCHANGED openFiles
    /\ IF RoutesToSetup(c)
       THEN /\ pc' = [pc EXCEPT ![Main] = "hts"]
            /\ chatID' = [chatID EXCEPT ![Main] = c]
            /\ input' = text
            /\ UNCHANGED lastMsg
       ELSE /\ lastMsg' = [lastMsg EXCEPT ![Main] = "hint"]
            /\ UNCHANGED <<pc, chatID, input>>
    /\ UNCHANGED <<activeTimers, timers, nTimers, mu, timer, wakeAt, forTimer,
                   manualStop, logFile, reports, logErr, now, crashed>>

\* ---------------------------------------------------------- handleTimerSetup
\* timer := activeTimers[chatID] (again without the mutex) found no entry:
\* timer.Name dereferences nil.
HtsNil ==
    /\ ~crashed /\ UNCHANGED <<nEvents, openFiles>> /\ pc[Main] = "hts"
    /\ activeTimers[chatID[Main]] = NoTimer
    /\ crashed' = TRUE
    /\ UNCHANGED <<activeTimers, timers, nTimers, mu, pc, chatID, timer, input,
                   wakeAt, forTimer, manualStop, logFile, reports, lastMsg,
                   logErr, now>>

\* timer.Name == "": timer.Name = input
HtsName ==
    /\ ~crashed /\ UNCHANGED <<nEvents, openFiles>> /\ pc[Main] = "hts"
    /\ LET t == activeTimers[chatID[Main]] IN
       /\ t # NoTimer
       /\ timers[t].Name = <<>>
       /\ timers' = [timers EXCEPT ![t].Name = input]
    /\ Return(Main, "ask_minutes")
    /\ UNCHANGED <<activeTimers, nTimers, mu, wakeAt, forTimer, manualStop,
                   logFile, reports, now, crashed>>

\* time.ParseDuration(input + "m") returns an error
HtsBadDuration ==
    /\ ~crashed /\ UNCHANGED <<nEvents, openFiles>> /\ pc[Main] = "hts"
    /\ LET t == activeTimers[chatID[Main]] IN
       /\ t # NoTimer
       /\ timers[t].Name # <<>>
       /\ ~ParseMinutes(input).ok
    /\ Return(Main, "bad_minutes")
    /\ UNCHANGED <<activeTimers, timers, nTimers, mu, wakeAt, forTimer,
                   manualStop, logFile, reports, now, crashed>>

\* timer.Duration = duration; the confirm prompt
HtsDuration ==
    /\ ~crashed /\ UNCHANGED <<nEvents, openFiles>> /\ pc[Main] = "hts"
    /\ LET t == activeTimers[chatID[Main]] IN
       /\ t # NoTimer
       /\ timers[t].Name # <<>>
       /\ ParseMinutes(input).ok
       /\ timers' = [timers EXCEPT ![t].Duration = ParseMinutes(input).d]
    /\ Return(Main, "ask_confirm")
    /\ UNCHANGED <<activeTimers, nTimers, mu, wakeAt, forTimer, manualStop,
                   logFile, reports, now, crashed>>

\* ------------------------------------------------------------- startTimer
\* mu.Lock(); timer, exists := activeTimers[chatID]; mu.Unlock()
Confirm(c) ==
    /\ ~crashed /\ pc[Main] = "idle"
    /\ nEvents < MaxEvents
    /\ nEvents' = nEvents + 1
    /\ UNCHANGED openFiles
    /\ \E g \in Goroutines : pc[g] = "none"
    /\ mu = NoThread
    /\ timer' = [timer EXCEPT ![Main] = activeTimers[c]]
    /\ pc' = [pc EXCEPT ![Main] = "st_guard"]
    /\ chatID' = [chatID EXCEPT ![Main] = c]
    /\ UNCHANGED <<activeTimers, timers, nTimers, mu, input, wakeAt, forTimer,
                   manualStop, logFile, reports, lastMsg, logErr, now, crashed>>

\* !exists || timer.Name == "" || timer.Duration == 0
StartGuardFails(t) ==
    \/ t = NoTimer
    \/ timers[t].Name = <<>>
    \/ timers[t].Duration = 0

\* The guard, outside the mutex, and on success timer.StartTime = time.Now().
StGuard ==
    /\ ~crashed /\ UNCHANGED <<nEvents, openFiles>> /\ pc[Main] = "st_guard"
    /\ IF StartGuardFails(timer[Main])
       THEN /\ Return(Main, "not_configured")
            /\ timers' = Collect(timers, activeTimers, timer')
       ELSE /\ timers' = [timers EXCEPT ![timer[Main]].StartTime = now]
            /\ pc' = [pc EXCEPT ![Main] = "st_log"]
            /\ UNCHANGED <<chatID, timer, input, lastMsg, logErr>>
    /\ UNCHANGED <<activeTimers, nTimers, mu, wakeAt, forTimer, manualStop,
                   logFile, reports, now, crashed>>

\* The goroutine started by `go func(chatID, timer.Duration)`: the first unused.
NewGoroutine ==
    CHOOSE g \in Goroutines :
        pc[g] = "none" /\ \A k \in Goroutines : pc[k] = "none" => g <= k

\* logTimer(timer, "Запуск"); bot.Send(started);
\* go func(chatID, timer.Duration) { time.Sleep(duration) ... }
StLog(err) ==
    /\ ~crashed /\ UNCHANGED nEvents /\ pc[Main] = "st_log"
    /\ logTimer(timer[Main], "start", err)
    /\ IF crashed'
       THEN UNCHANGED <<timers, pc, chatID, timer, wakeAt, forTimer, manualStop,
                        lastMsg>>
       ELSE /\ pc' = [pc EXCEPT ![Main] = "idle", ![NewGoroutine] = "sleep"]
            /\ chatID' = [chatID EXCEPT ![Main] = NoChat, ![NewGoroutine] = chatID[Main]]
            /\ wakeAt' = [wakeAt EXCEPT ![NewGoroutine] = now + timers[timer[Main]].Duration]
            /\ forTimer' = [forTimer EXCEPT ![NewGoroutine] = timer[Main]]
            /\ manualStop' = [manualStop EXCEPT ![NewGoroutine] = FALSE]
            /\ timer' = [timer EXCEPT ![Main] = NoTimer]
            /\ lastMsg' = [lastMsg EXCEPT ![Main] = "started"]
            /\ timers' = Collect(timers, activeTimers, timer')
    /\ UNCHANGED <<activeTimers, nTimers, mu, input, reports, logErr, now>>

\* --------------------------------------------------- the expiry goroutine
\* _, exists := activeTimers[chatID]
ExpiryExists(c) == activeTimers[c] # NoTimer

\* time.Sleep(duration) has returned; mu.Lock(); the existence check;
\* mu.Unlock(); if exists, the call of stopTimer(chatID, true).
ExCheck(g) ==
    /\ ~crashed /\ UNCHANGED <<nEvents, openFiles>> /\ pc[g] = "sleep"
    /\ now >= wakeAt[g]
    /\ mu = NoThread
    /\ wakeAt' = [wakeAt EXCEPT ![g] = 0]
    /\ IF ExpiryExists(chatID[g])
       THEN /\ pc' = [pc EXCEPT ![g] = "sp_lock"]
            /\ UNCHANGED chatID
       ELSE /\ pc' = [pc EXCEPT ![g] = "done"]
            /\ chatID' = [chatID EXCEPT ![g] = NoChat]
    /\ UNCHANGED <<activeTimers, timers, nTimers, mu, timer, input, forTimer,
                   manualStop, logFile, reports, lastMsg, logErr, now, crashed>>

\* -------------------------------------------------------------- stopTimer
\* handleCallback "stop_timer": stopTimer(chatID, false)
Stop(c) ==
    /\ ~crashed /\ pc[Main] = "idle"
    /\ nEvents < MaxEvents
    /\ nEvents' = nEvents + 1
    /\ UNCHANGED openFiles
    /\ pc' = [pc EXCEPT ![Main] = "sp_lock"]
    /\ chatID' = [chatID EXCEPT ![Main] = c]
    /\ manualStop' = [g \in Goroutines |-> manualStop[g] \/ chatID[g] = c]
    /\ UNCHANGED <<activeTimers, timers, nTimers, mu, timer, input, wakeAt,
                   forTimer, logFile, reports, lastMsg, logErr, now, crashed>>

\* A stopTimer that forgets the `if !exists` return.
StopFindsTimer_unchecked(c) == TRUE

\* timer, exists := activeTimers[chatID]; exists
StopFindsTimer(c) == activeTimers[c] # NoTimer

\* mu.Lock(); the lookup.
\* !exists: mu.Unlock(), "no active timer", return.
\* exists: stopTime := time.Now(); timer.StopTime = &stopTime (nil timer: panic),
\* with the mutex still held.
SpLookup(th) ==
    /\ ~crashed /\ UNCHANGED <<nEvents, openFiles>> /\ pc[th] = "sp_lock"
    /\ mu = NoThread
    /\ LET t == activeTimers[chatID[th]] IN
       IF ~StopFindsTimer(chatID[th])
       THEN /\ Return(th, "no_active")
            /\ UNCHANGED <<timers, mu, crashed>>
       ELSE IF t = NoTimer
       THEN /\ crashed' = TRUE
            /\ mu' = th
            /\ UNCHANGED <<timers, pc, chatID, timer, input, lastMsg, logErr>>
       ELSE /\ timer' = [timer EXCEPT ![th] = t]
            /\ timers' = [timers EXCEPT ![t].StopTime = now]
            /\ pc' = [pc EXCEPT ![th] = "sp_log"]
            /\ mu' = th
            /\ UNCHANGED <<chatID, input, lastMsg, logErr, crashed>>
    /\ UNCHANGED <<activeTimers, nTimers, wakeAt, forTimer, manualStop,
                   logFile, reports, now>>

\* logTimer(timer, "Остановлен"), under the mutex
SpLog(th, err) ==
    /\ ~crashed /\ UNCHANGED nEvents /\ pc[th] = "sp_log"
    /\ logTimer(timer[th], "stop", err)
    /\ logErr' = [logErr EXCEPT ![th] = err]
    /\ pc' = [pc EXCEPT ![th] = "sp_delete"]
    /\ UNCHANGED <<activeTimers, timers, nTimers, mu, chatID, timer, input,
                   wakeAt, forTimer, manualStop, reports, lastMsg, now>>

\* A stopTimer that empties the map.
StoreAfterStop_clearAll(c) == [k \in Chats |-> NoTimer]

\* A stopTimer that forgets delete(activeTimers, chatID).
StoreAfterStop_noDelete(c) == activeTimers

\* delete(activeTimers, chatID)
StoreAfterStop(c) == [activeTimers EXCEPT ![c] = NoTimer]

\* delete, mu.Unlock(), bot.Send(stopped [+ expired])
SpDelete(th) ==
    /\ ~crashed /\ UNCHANGED <<nEvents, openFiles>> /\ pc[th] = "sp_delete"
    /\ activeTimers' = StoreAfterStop(chatID[th])
    /\ mu' = NoThread
    /\ reports' = Append(reports, [chat |-> chatID[th], timer |-> timer[th],
                                   auto |-> Auto(th)])
    /\ Return(th, IF Auto(th) THEN "expired" ELSE "stopped")
    /\ timers' = Collect(timers, activeTimers', timer')
    /\ UNCHANGED <<nTimers, wakeAt, forTimer, manualStop, logFile, now,
                   crashed>>

\* ---------------------------------------------------------- environment
\* Time passes, up to the instant a sleeping goroutine's time.Sleep is due
\* to return.  (All the program does with the time between two such
\* instants is to store it: it is compared with nothing.)
Elapse ==
    /\ ~crashed /\ UNCHANGED <<nEvents, openFiles>>
    /\ \E g \in Goroutines :
          /\ pc[g] = "sleep"
          /\ wakeAt[g] > now
          /\ now' = wakeAt[g]
    /\ UNCHANGED <<activeTimers, timers, nTimers, mu, pc, chatID, timer, input,
                   wakeAt, forTimer, manualStop, logFile, reports, lastMsg,
                   logErr, crashed>>

\* Goroutine g's next statement reads (writes) the map, under the mutex.
GoMapRead(g) == pc[g] \in {"sleep", "sp_lock"} /\ now >= wakeAt[g] /\ mu = NoThread
GoMapWrite(g) == pc[g] = "sp_delete"

\* The update loop's next statement may read (write) the map without the mutex.
MainMapRead == pc[Main] = "hts" \/ (pc[Main] = "idle" /\ nEvents < MaxEvents)
MainMapWrite == pc[Main] = "idle" /\ nTimers < MaxTimers /\ nEvents < MaxEvents

\* The update loop and a goroutine can access the map at the same time, one
\* of them writing: a data race on a Go map.
MapRace ==
    \E g \in Goroutines :
        \/ MainMapWrite /\ (GoMapRead(g) \/ GoMapWrite(g))
        \/ MainMapRead /\ GoMapWrite(g)

\* One outcome of the race: the runtime detects it and throws
\* "fatal error: concurrent map read and map write" / "concurrent map writes".
\* (The other outcomes are the two orders of the accesses.)
MapRaceFault ==
    /\ ~crashed /\ UNCHANGED <<nEvents, openFiles>>
    /\ MapRace
    /\ crashed' = TRUE
    /\ UNCHANGED <<activeTimers, timers, nTimers, mu, pc, chatID, timer, input,
                   wakeAt, forTimer, manualStop, logFile, reports, lastMsg,
                   logErr, now>>

Next ==
    \/ \E c \in Chats : BeginSetup(c)
    \/ \E c \in Chats, text \in Texts : TextInput(c, text)
    \/ HtsNil
    \/ HtsName
    \/ HtsBadDuration
    \/ HtsDuration
    \/ \E c \in Chats : Confirm(c)
    \/ StGuard
    \/ \E err \in LogOutcomes : StLog(err)
    \/ \E g \in Goroutines : ExCheck(g)
    \/ \E c \in Chats : Stop(c)
    \/ \E th \in Threads : SpLookup(th)
    \/ \E th \in Threads, err \in LogOutcomes : SpLog(th, err)
    \/ \E th \in Threads : SpDelete(th)
    \/ Elapse
    \/ MapRaceFault

Spec == Init /\ [][Next]_vars


\* ================================================================= claims
TimerIds == 1..MaxTimers

\* The "stop" lines of the log that are about Timer t.
StopRecords(t) ==
    {i \in 1..Len(logFile) : logFile[i].action = "stop" /\ logFile[i].timer = t}

\* The lines of the log that are about Timer t.
Records(t) == {i \in 1..Len(logFile) : logFile[i].timer = t}

\* The "timer stopped" messages that are about Timer t.
StopReports(t) == {i \in 1..Len(reports) : reports[i].timer = t}

\* Thread th takes a step that leaves the position `at`.
Leaves(th, at) == pc[th] = at /\ pc'[th] # at

\* ---- C1
\* C1: whatever the interleaving of a manual Stop and the expiry countdown
\* (or of several of either), a Timer gets at most one "stop" line in the log
\* and at most one "timer stopped" message: the stop that comes second finds
\* no entry and writes and reports nothing.
C1_AtMostOneStop ==
    \A t \in TimerIds :
        /\ Cardinality(StopRecords(t)) <= 1
        /\ Cardinality(StopReports(t)) <= 1

\* A countdown saw the entry, lost the race to the manual Stop of its Timer,
\* and was told "no active timer" by stopTimer.
C1_Witness ==
    \E g \in Goroutines :
        /\ pc[g] = "done"
        /\ lastMsg[g] = "no_active"
        /\ Cardinality(StopRecords(forTimer[g])) = 1
        /\ \E i \in StopReports(forTimer[g]) : ~reports[i].auto

\* ---- C2
\* C2: a countdown whose Timer has already been stopped never stops another
\* Timer: a goroutine inside stopTimer, past the lookup, holds the Timer its
\* Confirm scheduled it for.
C2_CountdownStopsOnlyItsTimer ==
    \A g \in Goroutines :
        (pc[g] \in {"sp_log", "sp_delete"} /\ StopReports(forTimer[g]) # {})
            => timer[g] = forTimer[g]

\* ---- C3
\* C3: once the countdown of a Timer has run to its end with no manual Stop
\* issued for the chat since the Confirm, that Timer has been stopped and
\* reported as expired, exactly once.  (The "stop" line is written by the same
\* call of stopTimer, unless the append fails.)
C3_ExpiryStopsItsTimer ==
    \A g \in Goroutines :
        (pc[g] = "done" /\ ~manualStop[g])
            => /\ Cardinality(StopReports(forTimer[g])) = 1
               /\ \A i \in StopReports(forTimer[g]) : reports[i].auto

\* ---- C4
\* C4: a Confirm whose Timer is missing, has no name, or has a duration that
\* is not greater than zero fails: it sets no start time, writes no log line,
\* starts no countdown and leaves the store as it is.
C4_ConfirmNeedsPositiveDuration ==
    [][ (/\ Leaves(Main, "st_guard")
         /\ \/ timer[Main] = NoTimer
            \/ timers[timer[Main]].Name = <<>>
            \/ timers[timer[Main]].Duration <= 0)
        => /\ pc'[Main] = "idle"
           /\ lastMsg'[Main] = "not_configured"
           /\ logFile' = logFile
           /\ activeTimers' = activeTimers
           /\ \A g \in Goroutines : pc'[g] = pc[g]
           /\ \A t \in TimerIds : timers'[t].StartTime \in {timers[t].StartTime, NoTime}
      ]_vars

\* ---- C5
\* C5: a stop that finds no entry for its chat, the manual one and the
\* countdown's alike, writes no log line, sends no "timer stopped" message,
\* leaves every chat's entry as it is and returns; stopTimer answers
\* "no active timer".
C5_StopOfNothing ==
    [][ \A th \in Threads :
          /\ (SpLookup(th) /\ activeTimers[chatID[th]] = NoTimer)
                => /\ logFile' = logFile
                   /\ reports' = reports
                   /\ activeTimers' = activeTimers
                   /\ timers' = timers
                   /\ ~crashed'
                   /\ mu' = NoThread
                   /\ pc'[th] = Finished(th)
                   /\ lastMsg'[th] = "no_active"
          /\ (th # Main /\ ExCheck(th) /\ activeTimers[chatID[th]] = NoTimer)
                => /\ logFile' = logFile
                   /\ reports' = reports
                   /\ activeTimers' = activeTimers
                   /\ timers' = timers
                   /\ pc'[th] = "done"
      ]_vars

\* A manual Stop and a countdown have both found nothing to stop.
C5_Witness ==
    /\ lastMsg[Main] = "no_active"
    /\ \E g \in Goroutines : pc[g] = "done" /\ lastMsg[g] \in {"none", "no_active"}

\* ---- C6
\* C6: the map is only written by a thread that holds the mutex, and
\* handleTimerSetup reads it holding the mutex.
C6_MapOnlyUnderMutex ==
    [][ /\ activeTimers' # activeTimers => mu # NoThread
        /\ pc[Main] = "hts" => mu = Main
      ]_vars

\* ---- C7
\* A text that is a positive whole number of minutes: digits only, not zero.
IsPositiveInteger(s) ==
    /\ s # <<>>
    /\ \A i \in 1..Len(s) : s[i] \in Digits
    /\ leadingInt(s, 0).x > 0

\* C7: a text that reaches a Timer waiting for its duration sets the duration
\* to that many minutes if it is a positive whole number, and otherwise
\* leaves the Timer as it is.
C7_DurationFromPositiveIntegerOnly ==
    [][ LET t == activeTimers[chatID[Main]] IN
        (/\ pc[Main] = "hts" /\ pc'[Main] = "idle"
         /\ t # NoTimer
         /\ timers[t].Name # <<>>)
        => IF IsPositiveInteger(input)
           THEN timers'[t] = [timers[t] EXCEPT !.Duration = leadingInt(input, 0).x * Minute]
           ELSE timers'[t] = timers[t]
      ]_vars

\* ---- C8
\* C8: a text for a chat that has no entry, or whose Timer has a duration
\* other than zero, goes no further than handleMessage: the store, every
\* Timer and the log stay as they are; and no step changes a name or a
\* duration that is set, as long as the Timer is in use.
C8_TextOutOfProtocol ==
    [][ /\ \A c \in Chats, text \in Texts :
            (/\ TextInput(c, text)
             /\ \/ activeTimers[c] = NoTimer
                \/ timers[activeTimers[c]].Duration # 0)
            => /\ pc'[Main] = "idle"
               /\ lastMsg'[Main] = "hint"
               /\ activeTimers' = activeTimers
               /\ timers' = timers
               /\ logFile' = logFile
        /\ \A t \in Reachable(activeTimers', timer') \ {NoTimer} :
              /\ timers[t].Name # <<>> => timers'[t].Name = timers[t].Name
              /\ timers[t].Duration # 0 => timers'[t].Duration = timers[t].Duration
      ]_vars

\* A text was answered with the usage hint while the chat's Timer was
\* armed or running.
C8_Witness ==
    /\ lastMsg[Main] = "hint"
    /\ nEvents = 4
    /\ \E c \in Chats : activeTimers[c] # NoTimer /\ timers[activeTimers[c]].Duration # 0

\* ---- C9
\* C9: every "start" line of the log has "in progress" as its stop field.
C9_StartLineInProgress ==
    \A i \in 1..Len(logFile) : logFile[i].action = "start" => logFile[i].inProgress

\* ---- C10
\* C10: an append that fails does not end the transition.  In Confirm the
\* start time is set, the start is reported and the countdown is started;
\* in Stop the entry is removed, the mutex released and the stop reported.
C10_LogFailureSwallowed ==
    [][ /\ (pc[Main] = "st_log" /\ logFile' = logFile /\ (pc'[Main] # "st_log" \/ crashed'))
            => /\ ~crashed'
               /\ pc'[Main] = "idle"
               /\ lastMsg'[Main] = "started"
               /\ timers[timer[Main]].StartTime # NoTime
               /\ \E g \in Goroutines :
                     /\ pc[g] = "none" /\ pc'[g] = "sleep"
                     /\ forTimer'[g] = timer[Main]
                     /\ chatID'[g] = chatID[Main]
        /\ \A th \in Threads :
              /\ (pc[th] = "sp_log" /\ logFile' = logFile /\ (pc'[th] # "sp_log" \/ crashed'))
                    => /\ ~crashed'
                       /\ pc'[th] = "sp_delete"
                       /\ logErr'[th] # "none"
              /\ (Leaves(th, "sp_delete") /\ logErr[th] # "none")
                    => /\ activeTimers'[chatID[th]] = NoTimer
                       /\ mu' = NoThread
                       /\ pc'[th] = Finished(th)
                       /\ Len(reports') = Len(reports) + 1
                       /\ reports'[Len(reports')].timer = timer[th]
      ]_vars

\* A Timer was started and stopped, both reported, and neither append
\* succeeded: the log has no line about it.
C10_Witness ==
    \E g \in Goroutines :
        /\ pc[g] # "none"
        /\ StopReports(forTimer[g]) # {}
        /\ Records(forTimer[g]) = {}

\* ---- C11
\* C11: no Timer is the entry of two chats, and a "start_timer" for a chat
\* leaves it with a new, empty Timer as its entry, whether or not it had one:
\* no name, no duration, no start time, no stop time.
C11_SetupStoresFreshTimer ==
    [][ /\ \A c1, c2 \in Chats :
              (activeTimers'[c1] # NoTimer /\ activeTimers'[c1] = activeTimers'[c2])
                  => c1 = c2
        /\ \A c \in Chats :
              BeginSetup(c)
                  => /\ activeTimers'[c] # NoTimer
                     /\ activeTimers'[c] \notin Reachable(activeTimers, timer)
                     /\ timers'[activeTimers'[c]].Name = <<>>
                     /\ timers'[activeTimers'[c]].Duration = 0
                     /\ timers'[activeTimers'[c]].StartTime = NoTime
                     /\ timers'[activeTimers'[c]].StopTime = NoTime
      ]_vars

\* A chat whose Timer was started, and is still counted down, has a new empty
\* Timer as its entry.
C11_Witness ==
    \E g \in Goroutines :
        /\ pc[g] = "sleep"
        /\ lastMsg[Main] = "ask_name"
        /\ activeTimers[chatID[g]] \notin {NoTimer, forTimer[g]}
        /\ timers[activeTimers[chatID[g]]] = ZeroTimer

\* ---- C12
\* C12: a countdown stops a started Timer no earlier than the Timer's
\* duration after the Timer's start time.
C12_ExpiryNotBeforeDuration ==
    [][ \A g \in Goroutines :
          (SpDelete(g) /\ timers[timer[g]].StartTime # NoTime)
              => timers[timer[g]].StopTime
                    >= timers[timer[g]].StartTime + timers[timer[g]].Duration
      ]_vars

\* ---- C13
\* C13: a "stop" line is only written about a Timer that was started, and a
\* stop only removes the entry of a Timer that was started.
C13_StopOnlyFromRunning ==
    [][ /\ \A i \in 1..Len(logFile') :
              logFile'[i].action = "stop" => logFile'[i].started
        /\ \A th \in Threads :
              SpDelete(th) => timers[timer[th]].StartTime # NoTime
      ]_vars

\* ---- C14
\* C14: a Confirm for a Timer that is already started changes nothing, so a
\* start time that is set stays as it is, and a Timer has at most one
\* "start" line and at most one countdown waiting.
C14_ConfirmOnlyFromArmed ==
    [][ \A t \in TimerIds :
          /\ (timers[t].StartTime # NoTime /\ t \in Reachable(activeTimers', timer'))
                => timers'[t].StartTime = timers[t].StartTime
          /\ Cardinality({i \in 1..Len(logFile') :
                 logFile'[i].action = "start" /\ logFile'[i].timer = t}) <= 1
          /\ Cardinality({g \in Goroutines :
                 pc'[g] = "sleep" /\ forTimer'[g] = t}) <= 1
      ]_vars

\* ---- C15
\* C15: the entry of a started Timer is only taken out of the map, or
\* replaced, by the stopTimer that stops that Timer, which has written the
\* Timer's "stop" line unless the append failed.
C15_RunningLeavesOnlyByStop ==
    [][ \A c \in Chats :
          (/\ activeTimers[c] # NoTimer
           /\ timers[activeTimers[c]].StartTime # NoTime
           /\ activeTimers'[c] # activeTimers[c])
          => \E th \in Threads :
                /\ SpDelete(th)
                /\ chatID[th] = c
                /\ timer[th] = activeTimers[c]
                /\ logErr[th] = "none" => StopRecords(activeTimers[c]) # {}
      ]_vars

\* ---- C16
\* C16: startTimer sets the start time, writes the "start" line and starts
\* the countdown only for the Timer that is the chat's entry at that moment,
\* and no "stop" line of a Timer comes before a "start" line of it.
C16_ConfirmAtomicWithStop ==
    [][ /\ ((StGuard /\ ~StartGuardFails(timer[Main])) \/ (\E err \in LogOutcomes : StLog(err)))
            => activeTimers[chatID[Main]] = timer[Main]
        /\ \A i, j \in 1..Len(logFile') :
              (/\ logFile'[i].timer = logFile'[j].timer
               /\ logFile'[i].action = "start"
               /\ logFile'[j].action = "stop")
              => i < j
      ]_vars

\* ---- C17
\* C17: a text handled by handleTimerSetup is answered with the confirm
\* prompt only if it leaves the Timer with a duration greater than zero; if
\* it leaves a Timer that has a name with the duration zero, the answer asks
\* for the minutes again.
C17_ConfirmPromptOnlyWhenArmed ==
    [][ LET t == activeTimers[chatID[Main]] IN
        (pc[Main] = "hts" /\ pc'[Main] = "idle" /\ t # NoTimer)
        => /\ lastMsg'[Main] = "ask_confirm" => timers'[t].Duration > 0
           /\ (timers[t].Name # <<>> /\ timers'[t].Duration = 0)
                 => lastMsg'[Main] = "bad_minutes"
      ]_vars

\* ---- C18
\* A step of the handling of an update of chat c, or of a countdown started
\* for chat c.
StepFor(c) ==
    \/ BeginSetup(c)
    \/ \E text \in Texts : TextInput(c, text)
    \/ Confirm(c)
    \/ Stop(c)
    \/ /\ chatID[Main] = c
       /\ \/ HtsNil
          \/ HtsName
          \/ HtsBadDuration
          \/ HtsDuration
          \/ StGuard
          \/ \E err \in LogOutcomes : StLog(err)
    \/ \E th \in Threads :
          /\ chatID[th] = c
          /\ \/ SpLookup(th)
             \/ \E err \in LogOutcomes : SpLog(th, err)
             \/ SpDelete(th)
    \/ \E g \in Goroutines : chatID[g] = c /\ ExCheck(g)

\* C18: a step taken for one chat leaves every other chat's entry and that
\* entry's Timer as they are, and writes no log line about it.
C18_SessionsIsolated ==
    [][ \A c \in Chats :
          StepFor(c)
          => \A k \in Chats \ {c} :
                /\ activeTimers'[k] = activeTimers[k]
                /\ activeTimers[k] # NoTimer
                      => /\ timers'[activeTimers[k]] = timers[activeTimers[k]]
                         /\ \A i \in (Len(logFile) + 1)..Len(logFile') :
                               logFile'[i].timer # activeTimers[k]
      ]_vars

\* One chat's Timer has been stopped and reported while another chat's
\* Timer is started and still in the map.
C18_Witness ==
    \E c, k \in Chats :
        /\ c # k
        /\ \E i \in 1..Len(reports) : reports[i].chat = c
        /\ activeTimers[c] = NoTimer
        /\ activeTimers[k] # NoTimer
        /\ timers[activeTimers[k]].StartTime # NoTime

\* ---- C19
\* C19: a call of logTimer appends at most one line, and when it has
\* returned no handle of the log file is open, whether the open failed, the
\* write failed or the line was written.
C19_LogHandleReleased ==
    [][ /\ Len(logFile') <= Len(logFile) + 1
        /\ \A i \in 1..Len(logFile) : logFile'[i] = logFile[i]
        /\ openFiles' = 0
      ]_vars

\* A "stop" line could not be written (the open succeeded, the write
\* failed) and the log file is closed.
C19_Witness ==
    /\ openFiles = 0
    /\ \E th \in Threads : pc[th] = "sp_delete" /\ logErr[th] = "write"
====
